---- MODULE Spec2Model ----
(***************************************************************************)
(* A model of GadgetbridgeMQTTPublisher (src/main.py): the device alias    *)
(* lookup, the twelve metric queries, get_sensor_data, the discovery pass, *)
(* publish_sensor_data and the scheduling loop of run.                     *)
(*                                                                         *)
(* Text is a tuple of one-character strings, so that the character-level   *)
(* operations of the code (LOWER, LIKE, re.sub, title) are computed.       *)
(* A Python value is a pair <<tag, n>>: None, an int, a bool (n is 0 or    *)
(* 1) or a float with two decimals (n is the value in hundredths).         *)
(* A column value of the store is <<>> for NULL and <<n>> for the number   *)
(* n, <<text>> for a text.                                                 *)
(***************************************************************************)
EXTENDS Integers, Sequences, FiniteSets, TLC

(***************************************************************************)
(* Bounds of the model.                                                    *)
(***************************************************************************)
MaxCycles == 3
MaxInterval == 2
MaxWork == 1
MaxDay == 8
NewMonthDay == 7

(***************************************************************************)
(* Text.                                                                   *)
(***************************************************************************)
UpperCase ==
  <<"A","B","C","D","E","F","G","H","I","J","K","L","M",
    "N","O","P","Q","R","S","T","U","V","W","X","Y","Z">>

LowerCase ==
  <<"a","b","c","d","e","f","g","h","i","j","k","l","m",
    "n","o","p","q","r","s","t","u","v","w","x","y","z">>

Digits == {"0","1","2","3","4","5","6","7","8","9"}

Range(s) == {s[k] : k \in DOMAIN s}

IsUpper(c) == c \in Range(UpperCase)

IsLower(c) == c \in Range(LowerCase)

IsLetter(c) == IsUpper(c) \/ IsLower(c)

\* A character the pattern \w matches: a letter, a digit or the underscore.
IsWordChar(c) == IsLetter(c) \/ c \in Digits \/ c = "_"

LowerChar(c) ==
  IF IsUpper(c) THEN LowerCase[CHOOSE k \in DOMAIN UpperCase : UpperCase[k] = c] ELSE c

UpperChar(c) ==
  IF IsLower(c) THEN UpperCase[CHOOSE k \in DOMAIN LowerCase : LowerCase[k] = c] ELSE c

\* str.lower(), and SQL's LOWER.
Lower(t) == [k \in DOMAIN t |-> LowerChar(t[k])]

\* str.replace('_', ' ')
ReplaceUnderscore(t) == [k \in DOMAIN t |-> IF t[k] = "_" THEN " " ELSE t[k]]

\* str.title(): a letter that follows a non-letter is upper-cased, any other
\* letter is lower-cased.
Title(t) ==
  [k \in DOMAIN t |->
     IF k = 1 \/ ~IsLetter(t[k - 1]) THEN UpperChar(t[k]) ELSE LowerChar(t[k])]

\* SQL's  x LIKE '%sub%'  on an already lower-cased x.
Contains(t, sub) ==
  \E k \in 0..(Len(t) - Len(sub)) : SubSeq(t, k + 1, k + Len(sub)) = sub

\* re.sub(r"\W+", "_", t): every maximal run of non-word characters becomes
\* one underscore.
RECURSIVE SubNonWord(_, _)
SubNonWord(t, inRun) ==
  IF t = <<>> THEN <<>>
  ELSE IF IsWordChar(Head(t)) THEN <<Head(t)>> \o SubNonWord(Tail(t), FALSE)
  ELSE IF inRun THEN SubNonWord(Tail(t), TRUE)
  ELSE <<"_">> \o SubNonWord(Tail(t), TRUE)

\* The text as one string, for topics.
RECURSIVE Join(_)
Join(t) == IF t = <<>> THEN "" ELSE Head(t) \o Join(Tail(t))

(***************************************************************************)
(* Python values and their str().                                          *)
(***************************************************************************)
None == <<"none", 0>>

PyInt(n) == <<"int", n>>

PyBool(b) == <<"bool", IF b THEN 1 ELSE 0>>

PyFloat(hundredths) == <<"float", hundredths>>

\* A slip: the null sum is handed on as it is.
OrZero_Keeps(v) == v

\* "x or 0": a falsy x (None, 0, False, 0.0) gives the int 0.
OrZero(v) == IF v[2] = 0 THEN PyInt(0) ELSE v

\* str(value) for the values the queries return (floats are non-negative
\* and have at most two decimals).
Str(v) ==
  CASE v[1] = "none"  -> "None"
    [] v[1] = "int"   -> ToString(v[2])
    [] v[1] = "bool"  -> IF v[2] = 1 THEN "True" ELSE "False"
    [] v[1] = "float" ->
         ToString(v[2] \div 100) \o "." \o
           (IF v[2] % 10 = 0 THEN ToString((v[2] % 100) \div 10)
            ELSE ToString((v[2] % 100) \div 10) \o ToString(v[2] % 10))

(***************************************************************************)
(* The store: column values and tables.                                    *)
(***************************************************************************)
NULL == <<>>

Col(n) == <<n>>

\* A column value as the Python value sqlite3 hands to the code.
FromInt(c) == IF c = NULL THEN None ELSE PyInt(c[1])

FromReal(c) == IF c = NULL THEN None ELSE PyFloat(c[1])

\* ORDER BY TIMESTAMP DESC LIMIT 1 (the tables of the model hold distinct
\* timestamps).
Latest(table) == CHOOSE r \in table : \A q \in table : q.ts <= r.ts

(***************************************************************************)
(* The state.                                                              *)
(*   db            the tables of the store file                            *)
(*   broken        the queries that raise against this store (a malformed  *)
(*                 or missing table or column, a locked file); "device"    *)
(*                 stands for the DEVICE query of get_device_alias         *)
(*   fault         what fails at the file or connection level: "none",     *)
(*                 "missing" (no file), "connect", "cursor" or "close"     *)
(*   today, rolled the local date as a day number (day 0 is a Monday), and *)
(*                 how many of the three step queries, counted from the    *)
(*                 last, run after midnight has passed                     *)
(*   transport     whether the broker accepts the connection of run        *)
(*   pc            the control position                                    *)
(*   device_name, publish_interval, sensor_data, i   as in the code        *)
(*   conn, close_calls  the store connection of the latest call ("none",   *)
(*                 "open" or "closed") and the close() calls made on it    *)
(*   discovery, state_msgs  the publishes attempted: by the discovery      *)
(*                 pass, and by the latest publish_sensor_data             *)
(*   last_failed   the unique_id of the latest publish that raised in the  *)
(*                 current pass ("" if none)                               *)
(*   cycle         the cycles begun, counted up to MaxCycles               *)
(*   now           the clock: the time since the first cycle began; it is  *)
(*                 read until cycle MaxCycles begins                       *)
(*   cycle_start   the clock when the latest cycle began                   *)
(*   sleeps        the waits completed, counted up to MaxCycles - 1        *)
(*   passes        the discovery passes begun (at most 2 are counted)      *)
(*   prev_empty    whether the cycle before the current one got the empty  *)
(*                 result                                                  *)
(***************************************************************************)
VARIABLES db, broken, fault, today, rolled, transport,
          pc, device_name, publish_interval, sensor_data, i,
          conn, close_calls, discovery, state_msgs, last_failed,
          cycle, cycle_start, now, sleeps, passes, prev_empty

env == <<db, broken, fault, today, rolled, transport>>

prog == <<pc, device_name, publish_interval, sensor_data, i, conn, close_calls>>

hist == <<discovery, state_msgs, last_failed, cycle, cycle_start, now, sleeps, passes,
          prev_empty>>

vars == <<env, prog, hist>>

(***************************************************************************)
(* The sensor registry (self.sensors).                                     *)
(***************************************************************************)
\* The descriptors without the topic, which embeds the device name.
Descriptors ==
  <<[name |-> "Daily Steps", unique_id |-> "daily_steps", path |-> "steps/daily",
     meta |-> [unit_of_measurement |-> "steps", icon |-> "mdi:walk",
               state_class |-> "total_increasing"]],
    [name |-> "Weekly Steps", unique_id |-> "weekly_steps", path |-> "steps/weekly",
     meta |-> [unit_of_measurement |-> "steps", icon |-> "mdi:walk",
               state_class |-> "total"]],
    [name |-> "Monthly Steps", unique_id |-> "monthly_steps", path |-> "steps/monthly",
     meta |-> [unit_of_measurement |-> "steps", icon |-> "mdi:walk",
               state_class |-> "total"]],
    [name |-> "Battery Level", unique_id |-> "battery_level", path |-> "battery",
     meta |-> [unit_of_measurement |-> "%", icon |-> "mdi:battery",
               device_class |-> "battery"]],
    [name |-> "Weight", unique_id |-> "weight", path |-> "weight",
     meta |-> [unit_of_measurement |-> "kg", icon |-> "mdi:scale-bathroom",
               state_class |-> "measurement"]],
    [name |-> "Latest Heart Rate", unique_id |-> "latest_heart_rate", path |-> "heart_rate",
     meta |-> [unit_of_measurement |-> "bpm", icon |-> "mdi:heart-pulse",
               state_class |-> "measurement"]],
    [name |-> "Resting Heart Rate", unique_id |-> "hr_resting", path |-> "hr_resting",
     meta |-> [unit_of_measurement |-> "bpm", icon |-> "mdi:heart-pulse",
               state_class |-> "measurement"]],
    [name |-> "Max Heart Rate", unique_id |-> "hr_max", path |-> "hr_max",
     meta |-> [unit_of_measurement |-> "bpm", icon |-> "mdi:heart-pulse",
               state_class |-> "measurement"]],
    [name |-> "Average Heart Rate", unique_id |-> "hr_avg", path |-> "hr_avg",
     meta |-> [unit_of_measurement |-> "bpm", icon |-> "mdi:heart-pulse",
               state_class |-> "measurement"]],
    [name |-> "Calories", unique_id |-> "calories", path |-> "calories",
     meta |-> [unit_of_measurement |-> "kcal", icon |-> "mdi:fire",
               state_class |-> "total_increasing"]],
    [name |-> "Is Awake", unique_id |-> "is_awake", path |-> "is_awake",
     meta |-> [icon |-> "mdi:power-sleep", device_class |-> "enum"]],
    [name |-> "Total Sleep Duration", unique_id |-> "total_sleep_duration",
     path |-> "total_sleep_duration",
     meta |-> [unit_of_measurement |-> "h", icon |-> "mdi:sleep",
               state_class |-> "measurement"]]>>

NSensors == Len(Descriptors)

Ids == {Descriptors[k].unique_id : k \in 1..NSensors}

\* f"gadgetbridge/{self.device_name}/..."
StateTopic(name, k) == "gadgetbridge/" \o Join(name) \o "/" \o Descriptors[k].path

(***************************************************************************)
(* The metric queries.  A query gives a Python value, or Raise.            *)
(***************************************************************************)
Raise == <<"raise", 0>>

SecondsPerDay == 86400

\* int(datetime.combine(day, datetime.min.time()).timestamp())
DayStart(day) == day * SecondsPerDay

\* int(datetime.combine(day, datetime.max.time()).timestamp())
DayEnd(day) == day * SecondsPerDay + (SecondsPerDay - 1)

\* today - timedelta(days=today.weekday())
WeekStart(day) == day - (day % 7)

\* today.replace(day=1): day NewMonthDay is the first of a month that
\* follows a month of 31 days.
MonthStart(day) == IF day >= NewMonthDay THEN NewMonthDay ELSE NewMonthDay - 31

\* datetime.now().date() as the k-th step query (k = 1, 2, 3) sees it.
DateAt(k) == IF k > 3 - rolled THEN today + 1 ELSE today

\* SELECT SUM(STEPS): NULL when no row has a non-NULL STEPS.
RECURSIVE SumSteps(_)
SumSteps(rows) ==
  IF \A r \in rows : r.steps = NULL THEN None
  ELSE LET r == CHOOSE q \in rows : q.steps # NULL
           rest == SumSteps(rows \ {r})
       IN PyInt(r.steps[1] + (IF rest = None THEN 0 ELSE rest[2]))

\* A slip: the sample of the day's first second is left out.
query_daily_steps_Exclusive ==
  IF "daily_steps" \in broken THEN Raise
  ELSE LET day == DateAt(1)
       IN OrZero(SumSteps({r \in db.activity :
                              r.ts > DayStart(day) /\ r.ts <= DayEnd(day)}))

query_daily_steps ==
  IF "daily_steps" \in broken THEN Raise
  ELSE LET day == DateAt(1)
       IN OrZero(SumSteps({r \in db.activity :
                              r.ts >= DayStart(day) /\ r.ts <= DayEnd(day)}))

query_weekly_steps ==
  IF "weekly_steps" \in broken THEN Raise
  ELSE LET day == DateAt(2)
       IN OrZero(SumSteps({r \in db.activity : r.ts >= DayStart(WeekStart(day))}))

query_monthly_steps ==
  IF "monthly_steps" \in broken THEN Raise
  ELSE LET day == DateAt(3)
       IN OrZero(SumSteps({r \in db.activity : r.ts >= DayStart(MonthStart(day))}))

query_battery_level ==
  IF "battery_level" \in broken THEN Raise
  ELSE IF db.battery = {} THEN None ELSE FromInt(Latest(db.battery).level)

query_latest_weight ==
  IF "weight" \in broken THEN Raise
  ELSE IF db.weight = {} THEN None ELSE FromReal(Latest(db.weight).kg)

query_latest_heart_rate ==
  IF "latest_heart_rate" \in broken THEN Raise
  ELSE IF db.activity = {} THEN None ELSE FromInt(Latest(db.activity).hr)

query_hr_resting ==
  IF "hr_resting" \in broken THEN Raise
  ELSE IF db.summary = {} THEN None ELSE FromInt(Latest(db.summary).hr_resting)

query_hr_max ==
  IF "hr_max" \in broken THEN Raise
  ELSE IF db.summary = {} THEN None ELSE FromInt(Latest(db.summary).hr_max)

query_hr_avg ==
  IF "hr_avg" \in broken THEN Raise
  ELSE IF db.summary = {} THEN None ELSE FromInt(Latest(db.summary).hr_avg)

query_calories ==
  IF "calories" \in broken THEN Raise
  ELSE IF db.summary = {} THEN None ELSE FromInt(Latest(db.summary).calories)

\* not bool(row[0]): a NULL or 0 flag gives True.
query_is_awake ==
  IF "is_awake" \in broken THEN Raise
  ELSE IF db.sleep = {} THEN None
  ELSE LET c == Latest(db.sleep).is_awake
       IN PyBool(~(c # NULL /\ c[1] # 0))

\* round(row[0] / 60, 2) in hundredths: 100 * m / 60 = 5m/3 is never half
\* way between two integers, so rounding is to the nearest one.
RoundHours(minutes) == (10 * minutes + 3) \div 6

query_total_sleep_duration ==
  IF "total_sleep_duration" \in broken THEN Raise
  ELSE IF db.sleep = {} THEN None
  ELSE LET c == Latest(db.sleep).total_duration
       IN IF c = NULL THEN None ELSE PyFloat(RoundHours(c[1]))

\* sensor["query"](cursor) for the k-th descriptor.
Query(k) ==
  CASE k = 1  -> query_daily_steps
    [] k = 2  -> query_weekly_steps
    [] k = 3  -> query_monthly_steps
    [] k = 4  -> query_battery_level
    [] k = 5  -> query_latest_weight
    [] k = 6  -> query_latest_heart_rate
    [] k = 7  -> query_hr_resting
    [] k = 8  -> query_hr_max
    [] k = 9  -> query_hr_avg
    [] k = 10 -> query_calories
    [] k = 11 -> query_is_awake
    [] k = 12 -> query_total_sleep_duration

(***************************************************************************)
(* get_device_alias.                                                       *)
(***************************************************************************)
Fallback == <<"f","i","t","n","e","s","s","_","t","r","a","c","k","e","r">>

Band == <<"b","a","n","d">>

Watch == <<"w","a","t","c","h">>

\* WHERE LOWER(NAME) LIKE '%band%' OR LOWER(NAME) LIKE '%watch%'
Matches(row) == Contains(Lower(row.name), Band) \/ Contains(Lower(row.name), Watch)

\* cursor.fetchone() after the DEVICE query with LIMIT 1: the first matching
\* row in table order, as a one-element tuple holding its ALIAS, or <<>> for
\* "no row".
DeviceRow ==
  LET hits == {k \in DOMAIN db.device : Matches(db.device[k])}
  IN IF hits = {} THEN <<>>
     ELSE <<db.device[CHOOSE k \in hits : \A j \in hits : k <= j].alias>>

\* re.sub(r"\W+", "_", row[0]).lower()
Sanitize(alias) == Lower(SubNonWord(alias, FALSE))

\* The device names a constructed publisher has in the runs of the model:
\* the fallback, and the alias "Mi Band 7!" sanitized.
MiBand7 == <<"M","i"," ","B","a","n","d"," ","7","!">>

Slugs == {Fallback, Sanitize(MiBand7)}

\* if row and row[0]: ... else: return "fitness_tracker"
AliasOf(row) ==
  IF row # <<>> /\ row[1] # NULL /\ row[1][1] # <<>> THEN Sanitize(row[1][1])
  ELSE Fallback

\* What a call leaves of its connection when close() itself raises.
AfterFailedClose == {"open", "closed"}

\* The whole of get_device_alias, called by __init__.
GetDeviceAlias ==
  /\ pc = "init"
  /\ pc' = "constructed"
  /\ \/ /\ fault \in {"missing", "connect"}
        /\ device_name' = Fallback
        /\ conn' = "none" /\ close_calls' = 0
     \/ /\ fault \notin {"missing", "connect"}
        /\ fault = "cursor" \/ "device" \in broken
        /\ device_name' = Fallback
        /\ conn' = "open" /\ close_calls' = 0
     \/ /\ fault = "close" /\ "device" \notin broken
        /\ device_name' = Fallback
        /\ conn' \in AfterFailedClose /\ close_calls' = 1
     \/ /\ fault = "none" /\ "device" \notin broken
        /\ device_name' = AliasOf(DeviceRow)
        /\ conn' = "closed" /\ close_calls' = 1
  /\ UNCHANGED <<env, publish_interval, sensor_data, i, hist>>

(***************************************************************************)
(* get_sensor_data.                                                        *)
(***************************************************************************)
Empty == [u \in {} |-> None]

\* try: data[id] = query(cursor)  except Exception: data[id] = None
QueryOutcome(k) == IF Query(k) = Raise THEN None ELSE Query(k)

\* for sensor in self.sensors: ..., from the k-th descriptor on.
RECURSIVE RunQueries(_, _)
RunQueries(k, data) ==
  IF k > NSensors THEN data
  ELSE RunQueries(k + 1,
         (Descriptors[k].unique_id :> QueryOutcome(k)) @@ data)

\* A slip: without a store the result of the cycle before is returned again.
SensorData_KeepsLast == IF fault = "none" THEN RunQueries(1, Empty) ELSE sensor_data

\* What the call returns.
SensorData == IF fault = "none" THEN RunQueries(1, Empty) ELSE Empty

\* The connection after the call, and the close() calls made.
ConnAfter ==
  CASE fault \in {"missing", "connect"} -> {"none"}
    [] fault = "cursor" -> {"open"}
    [] fault = "close"  -> AfterFailedClose
    [] fault = "none"   -> {"closed"}

CloseCalls == IF fault \in {"close", "none"} THEN 1 ELSE 0

\* The clock advances by d until cycle MaxCycles has begun.
Tick(d) == IF cycle < MaxCycles THEN now + d ELSE now

\* The whole of get_sensor_data (it never awaits), taking 0..MaxWork time
\* units.
GetSensorData ==
  /\ pc = "extract"
  /\ sensor_data' = SensorData
  /\ conn' \in ConnAfter
  /\ close_calls' = CloseCalls
  /\ \E d \in 0..MaxWork : now' = Tick(d)
  /\ prev_empty' = (cycle > 1 /\ DOMAIN sensor_data = {})
  /\ pc' = "publish"
  /\ i' = 1
  /\ state_msgs' = <<>>
  /\ last_failed' = ""
  /\ UNCHANGED <<env, device_name, publish_interval, discovery, cycle, cycle_start,
                 sleeps, passes>>

(***************************************************************************)
(* publish_sensor_data: one step per descriptor.                           *)
(***************************************************************************)
\* data.get(sensor["unique_id"])
Get(data, id) == IF id \in DOMAIN data THEN data[id] ELSE None

\* A slip: "if value:", which also skips 0 and False.
IsPresent_Truthy(value) == value[2] # 0

\* if value is not None
IsPresent(value) == value # None

\* self.sensors as __init__ builds it, for each device name of the runs: the
\* descriptors with their state topics.
sensors ==
  [name \in Slugs |->
     [k \in 1..NSensors |-> [state_topic |-> StateTopic(name, k)] @@ Descriptors[k]]]

\* self.mqtt_client.publish(sensor["state_topic"], str(value), qos=1)
StateMsg(k, value) ==
  [topic |-> sensors[device_name][k].state_topic, payload |-> Str(value),
   qos |-> 1, retain |-> FALSE]

\* Where publish_sensor_data goes after the k-th descriptor.
NextSensor(k) ==
  /\ i' = k + 1
  /\ pc' = IF k = NSensors THEN "sleep" ELSE "publish"

\* A slip: the exception leaves publish_sensor_data and reaches the except
\* clause of run.
AfterPublishError_Propagates(k) == i' = k /\ pc' = "failed"

\* After a publish that raised: the except clause logs, the loop goes on.
AfterPublishError(k) == NextSensor(k)

PublishValue ==
  /\ pc = "publish"
  /\ IsPresent(Get(sensor_data, Descriptors[i].unique_id))
  /\ state_msgs' = Append(state_msgs, StateMsg(i, Get(sensor_data, Descriptors[i].unique_id)))
  /\ NextSensor(i)
  /\ UNCHANGED <<env, device_name, publish_interval, sensor_data, conn, close_calls,
                 discovery, last_failed, cycle, cycle_start, now, sleeps, passes,
                 prev_empty>>

PublishFails ==
  /\ pc = "publish"
  /\ IsPresent(Get(sensor_data, Descriptors[i].unique_id))
  /\ state_msgs' = Append(state_msgs, StateMsg(i, Get(sensor_data, Descriptors[i].unique_id)))
  /\ last_failed' = Descriptors[i].unique_id
  /\ AfterPublishError(i)
  /\ UNCHANGED <<env, device_name, publish_interval, sensor_data, conn, close_calls,
                 discovery, cycle, cycle_start, now, sleeps, passes, prev_empty>>

SkipAbsent ==
  /\ pc = "publish"
  /\ ~IsPresent(Get(sensor_data, Descriptors[i].unique_id))
  /\ NextSensor(i)
  /\ UNCHANGED <<env, device_name, publish_interval, sensor_data, conn, close_calls,
                 hist>>

(***************************************************************************)
(* The discovery pass: setup_home_assistant_entities, one step per         *)
(* descriptor (each publish is awaited).                                   *)
(***************************************************************************)
\* device_name.replace('_', ' ').title()
DisplayName(name) == Join(Title(ReplaceUnderscore(name)))

DeviceInfo(name) ==
  [identifiers |-> <<Join(name)>>,
   name |-> "Gadgetbridge " \o DisplayName(name),
   model |-> "Fitness Tracker",
   manufacturer |-> "Gadgetbridge"]

\* The config dictionary of the k-th descriptor: the four fixed keys and the
\* optional keys the descriptor has.
Config(name, k) ==
  [name |-> DisplayName(name) \o " " \o Descriptors[k].name,
   unique_id |-> Join(name) \o "_" \o Descriptors[k].unique_id,
   state_topic |-> StateTopic(name, k),
   device |-> DeviceInfo(name)] @@ Descriptors[k].meta

\* f"homeassistant/{entity_type}/{self.device_name}_{entity_id}/config"
DiscoveryTopic(name, entity_type, entity_id) ==
  "homeassistant/" \o entity_type \o "/" \o Join(name) \o "_" \o entity_id \o "/config"

\* json.dumps of a string without characters to escape.
Quote(str) == "\"" \o str \o "\""

OptionalKeys == <<"unit_of_measurement", "icon", "state_class", "device_class">>

\* The optional keys of a config, in the order the code inserts them.
RECURSIVE DumpsOptional(_, _)
DumpsOptional(config, keys) ==
  IF keys = <<>> THEN ""
  ELSE (IF Head(keys) \in DOMAIN config
          THEN ", " \o Quote(Head(keys)) \o ": " \o Quote(config[Head(keys)])
          ELSE "")
       \o DumpsOptional(config, Tail(keys))

\* json.dumps(config): the keys in insertion order, ", " and ": " between.
Dumps(config) ==
  "{" \o Quote("name") \o ": " \o Quote(config.name)
  \o ", " \o Quote("unique_id") \o ": " \o Quote(config.unique_id)
  \o ", " \o Quote("state_topic") \o ": " \o Quote(config.state_topic)
  \o ", " \o Quote("device") \o ": {"
     \o Quote("identifiers") \o ": [" \o Quote(config.device.identifiers[1]) \o "]"
     \o ", " \o Quote("name") \o ": " \o Quote(config.device.name)
     \o ", " \o Quote("model") \o ": " \o Quote(config.device.model)
     \o ", " \o Quote("manufacturer") \o ": " \o Quote(config.device.manufacturer)
     \o "}"
  \o DumpsOptional(config, OptionalKeys)
  \o "}"

\* publish(discovery_topic, json.dumps(config), qos=1, retain=True)
DiscoveryMsg(name, k) ==
  [topic |-> DiscoveryTopic(name, "sensor", Descriptors[k].unique_id),
   payload |-> Dumps(Config(name, k)), qos |-> 1, retain |-> TRUE]

\* The messages of a pass, which depend on the device name alone, for each
\* device name of the runs.
DiscoveryMsgs ==
  [name \in Slugs |-> [k \in 1..NSensors |-> DiscoveryMsg(name, k)]]

\* Where the pass goes after the k-th descriptor: on to the next one, or
\* back to run, which starts the first cycle at once.
NextDescriptor(k) ==
  /\ i' = k + 1
  /\ pc' = IF k = NSensors THEN "extract" ELSE "announce"
  /\ cycle' = IF k = NSensors THEN 1 ELSE cycle
  /\ cycle_start' = IF k = NSensors THEN now ELSE cycle_start

\* A slip: the first failed publish ends the pass.
AfterDiscoveryError_Aborts(k) ==
  /\ i' = NSensors + 1
  /\ pc' = "extract"
  /\ cycle' = 1
  /\ cycle_start' = now

\* After a discovery publish that raised: the except clause logs and
\* publish_home_assistant_discovery returns normally.
AfterDiscoveryError(k) == NextDescriptor(k)

Announce ==
  /\ pc = "announce"
  /\ discovery' = Append(discovery, DiscoveryMsgs[device_name][i])
  /\ NextDescriptor(i)
  /\ UNCHANGED <<env, device_name, publish_interval, sensor_data, conn, close_calls,
                 state_msgs, last_failed, now, sleeps, passes, prev_empty>>

AnnounceFails ==
  /\ pc = "announce"
  /\ discovery' = Append(discovery, DiscoveryMsgs[device_name][i])
  /\ last_failed' = Descriptors[i].unique_id
  /\ AfterDiscoveryError(i)
  /\ UNCHANGED <<env, device_name, publish_interval, sensor_data, conn, close_calls,
                 state_msgs, now, sleeps, passes, prev_empty>>

(***************************************************************************)
(* run.                                                                    *)
(***************************************************************************)
\* async with aiomqtt.Client(...) as client: the connection is made, or the
\* exception is logged by the except clause of run, which then returns.
Connect ==
  /\ pc = "connect"
  /\ IF transport
       THEN /\ pc' = "announce"
            /\ i' = 1
            /\ passes' = IF passes < 2 THEN passes + 1 ELSE passes
       ELSE /\ pc' = "failed"
            /\ UNCHANGED <<i, passes>>
  /\ UNCHANGED <<env, device_name, publish_interval, sensor_data, conn, close_calls,
                 discovery, state_msgs, last_failed, cycle, cycle_start, now, sleeps,
                 prev_empty>>

\* A slip: the loop does not wait.
SleepTime_NoWait(delay) == 0

\* asyncio.sleep(delay) suspends for delay, and not at all for delay <= 0.
SleepTime(delay) == IF delay > 0 THEN delay ELSE 0

\* await asyncio.sleep(self.publish_interval), then the next cycle.
Sleep ==
  /\ pc = "sleep"
  /\ now' = Tick(SleepTime(publish_interval))
  /\ cycle' = IF cycle < MaxCycles THEN cycle + 1 ELSE cycle
  /\ cycle_start' = now'
  /\ sleeps' = IF sleeps < MaxCycles - 1 THEN sleeps + 1 ELSE sleeps
  /\ pc' = "extract"
  /\ last_failed' = ""
  /\ UNCHANGED <<env, device_name, publish_interval, sensor_data, i, conn, close_calls,
                 discovery, state_msgs, passes, prev_empty>>

(***************************************************************************)
(* Stores the model runs against.                                          *)
(***************************************************************************)
Days == 0..MaxDay

Faults == {"none", "missing", "connect", "cursor", "close"}

NoTables == [activity |-> {}, battery |-> {}, weight |-> {}, summary |-> {},
             sleep |-> {}, device |-> <<>>]

\* Activity samples around the day d: the first second of d (500 steps, a
\* heart rate or none), the second before it, the last second of d, a row
\* without steps at noon, the first second of the next day, a week earlier.
Midnight(d, hr) == [ts |-> DayStart(d), steps |-> Col(500), hr |-> hr]

ActivityRows(d) ==
  {Midnight(d, Col(70)),
   [ts |-> DayStart(d) - 1, steps |-> Col(7), hr |-> Col(60)],
   [ts |-> DayEnd(d), steps |-> Col(30), hr |-> NULL],
   [ts |-> DayStart(d) + (SecondsPerDay \div 2), steps |-> NULL, hr |-> Col(0)],
   [ts |-> DayStart(d + 1), steps |-> Col(1000), hr |-> Col(90)],
   [ts |-> DayStart(d - 7), steps |-> Col(2000), hr |-> Col(80)]}

ActivityTables(d) == SUBSET ActivityRows(d) \cup {{Midnight(d, NULL)}}

BatteryTables ==
  {{}, {[ts |-> 10, level |-> Col(0)]}, {[ts |-> 10, level |-> NULL]},
   {[ts |-> 10, level |-> Col(50)], [ts |-> 20, level |-> Col(80)]}}

WeightTables == {{}, {[ts |-> 10, kg |-> Col(7050)]}, {[ts |-> 10, kg |-> NULL]}}

SummaryTables ==
  {{},
   {[ts |-> 10, hr_resting |-> Col(55), hr_max |-> Col(160), hr_avg |-> Col(72),
     calories |-> Col(0)]},
   {[ts |-> 10, hr_resting |-> NULL, hr_max |-> Col(150), hr_avg |-> NULL,
     calories |-> Col(2100)],
    [ts |-> 5, hr_resting |-> Col(50), hr_max |-> Col(140), hr_avg |-> Col(70),
     calories |-> Col(1800)]}}

SleepTables ==
  {{}, {[ts |-> 10, is_awake |-> Col(1), total_duration |-> Col(90)]},
   {[ts |-> 10, is_awake |-> Col(0), total_duration |-> Col(125)]},
   {[ts |-> 10, is_awake |-> NULL, total_duration |-> NULL]},
   {[ts |-> 10, is_awake |-> Col(1), total_duration |-> Col(0)]}}

\* A store with a row in every table.
FullTables(d) ==
  [activity |-> {Midnight(d, Col(70))},
   battery |-> {[ts |-> 10, level |-> Col(50)], [ts |-> 20, level |-> Col(80)]},
   weight |-> {[ts |-> 10, kg |-> Col(7050)]},
   summary |-> {[ts |-> 10, hr_resting |-> Col(55), hr_max |-> Col(160),
                 hr_avg |-> Col(72), calories |-> Col(0)]},
   sleep |-> {[ts |-> 10, is_awake |-> Col(1), total_duration |-> Col(90)]},
   device |-> <<>>]

DeviceNames ==
  {<<"M","i"," ","S","m","a","r","t"," ","B","a","n","d">>,
   <<"A","p","p","l","e"," ","W","A","T","C","H">>,
   <<"P","i","x","e","l">>}

DeviceAliases ==
  {NULL, Col(<<>>), Col(MiBand7), Col(<<"_","a"," ","-"," ","_","Z">>), Col(<<"!","?">>)}

DeviceRows == [name : DeviceNames, alias : DeviceAliases]

DeviceTables ==
  {<<>>} \cup {<<r>> : r \in DeviceRows} \cup {<<r, q>> : r \in DeviceRows, q \in DeviceRows}

(***************************************************************************)
(* Specifications.                                                         *)
(***************************************************************************)
\* The program variables before anything has run, at control position p.
Fresh(p) ==
  /\ pc = p
  /\ sensor_data = Empty
  /\ i = 1
  /\ conn = "none"
  /\ close_calls = 0
  /\ discovery = <<>>
  /\ state_msgs = <<>>
  /\ last_failed = ""
  /\ cycle = 0
  /\ cycle_start = 0
  /\ now = 0
  /\ sleeps = 0
  /\ passes = 0
  /\ prev_empty = FALSE

\* The stores of the scheduler runs.
RunStore ==
  /\ today = 0
  /\ rolled = 0
  /\ db \in {NoTables, FullTables(0)}
  /\ broken \in {{}, {"latest_heart_rate"}}
  /\ fault \in Faults

\* The store file is locked, replaced or repaired before a cycle.
StoreChanges ==
  /\ pc = "extract"
  /\ db' \in {NoTables, FullTables(0)}
  /\ broken' \in {{}, {"latest_heart_rate"}}
  /\ fault' \in Faults
  /\ <<db', broken', fault'>> # <<db, broken, fault>>
  /\ UNCHANGED <<today, rolled, transport, prog, hist>>

\* run, from a constructed publisher.
Init ==
  /\ Fresh("connect")
  /\ device_name \in Slugs
  /\ publish_interval \in 0..MaxInterval
  /\ transport \in BOOLEAN
  /\ RunStore

Step ==
  \/ Connect
  \/ Announce
  \/ AnnounceFails
  \/ GetSensorData
  \/ PublishValue
  \/ PublishFails
  \/ SkipAbsent
  \/ Sleep

Next == Step \/ StoreChanges

Spec == Init /\ [][Next]_vars

\* run with the default device name and an interval of one time unit, which
\* the progress of the loop does not depend on.
InitLive ==
  /\ Init
  /\ device_name = Fallback
  /\ publish_interval = 1

\* The event loop runs the coroutine whenever it can go on: a publish returns
\* or raises, and the wait ends.
FairSpec == InitLive /\ [][Next]_vars /\ WF_vars(Step)

\* __init__ calling get_device_alias.
InitAlias ==
  /\ Fresh("init")
  /\ device_name = <<>>
  /\ publish_interval = 0
  /\ transport = TRUE
  /\ today = 0
  /\ rolled = 0
  /\ \E t \in DeviceTables : db = [NoTables EXCEPT !.device = t]
  /\ broken \in {{}, {"device"}}
  /\ fault \in Faults

NextAlias == GetDeviceAlias

SpecAlias == InitAlias /\ [][NextAlias]_vars

\* One call of get_sensor_data, for every set of failing queries.
InitExtract ==
  /\ Fresh("extract")
  /\ device_name = Fallback
  /\ publish_interval = 0
  /\ transport = TRUE
  /\ today = 0
  /\ rolled = 0
  /\ db \in {NoTables, FullTables(0)}
  /\ broken \in SUBSET Ids
  /\ fault \in Faults

NextExtract == GetSensorData

SpecExtract == InitExtract /\ [][NextExtract]_vars

\* One cycle, get_sensor_data then publish_sensor_data, over many stores.
InitCycle ==
  /\ Fresh("extract")
  /\ device_name \in Slugs
  /\ publish_interval = 0
  /\ transport = TRUE
  /\ today \in Days
  /\ \/ /\ rolled \in 0..2
        /\ \E a \in ActivityTables(today) : db = [NoTables EXCEPT !.activity = a]
        /\ broken = {}
        /\ fault = "none"
     \/ /\ rolled = 0
        /\ today = 0
        /\ db \in [activity : {{}}, battery : BatteryTables, weight : WeightTables,
                   summary : SummaryTables, sleep : SleepTables, device : {<<>>}]
        /\ broken = {}
        /\ fault = "none"
     \/ /\ rolled = 0
        /\ today = 0
        /\ db \in {NoTables, FullTables(0)}
        /\ broken \in {{}, {"latest_heart_rate"}, Ids}
        /\ fault \in Faults

NextCycle ==
  \/ GetSensorData
  \/ PublishValue
  \/ PublishFails
  \/ SkipAbsent

SpecCycle == InitCycle /\ [][NextCycle]_vars

(***************************************************************************)
(* Properties.                                                             *)
(***************************************************************************)
Uid(k) == Descriptors[k].unique_id

\* get_sensor_data has returned.
Returned == pc \in {"publish", "sleep"}

\* The entry the k-th query alone determines.
Expected(k) == IF Uid(k) \in broken THEN None ELSE Query(k)

\* The state messages attempted so far for the k-th descriptor.
Attempts(k) ==
  {j \in DOMAIN state_msgs : state_msgs[j].topic = sensors[device_name][k].state_topic}

\* C1: once get_sensor_data has opened a store connection, whatever set of
\* queries raises, the result has an entry for every sensor of the registry:
\* None for a sensor whose query raised, the query's return value for any
\* other; and the call returns (it never raises).
C1_EntryForEverySensor ==
  (Returned /\ conn # "none") =>
     /\ DOMAIN sensor_data = Ids
     /\ \A k \in 1..NSensors : sensor_data[Uid(k)] = Expected(k)

\* C1, as far as the code goes: the same, when creating the cursor and
\* closing the connection succeed.
C1_EntryForEverySensorUnlessConnectionFails ==
  (Returned /\ fault = "none") =>
     /\ DOMAIN sensor_data = Ids
     /\ \A k \in 1..NSensors : sensor_data[Uid(k)] = Expected(k)

\* C7: a store connection that get_sensor_data opened is closed exactly once
\* before the function returns, on every path, so none is open while the
\* scheduler waits.
C7_ClosedExactlyOnce ==
  (Returned /\ conn # "none") => (conn = "closed" /\ close_calls = 1)

\* C8: get_device_alias leaves no connection open on any path, closes at most
\* once, and returns the fallback slug on every failure path (no file, no
\* connection, a failing DEVICE query, no matching row, an empty or null
\* alias).
C8_AliasClosesAndFallsBack ==
  (pc = "constructed") =>
     /\ conn \in {"none", "closed"}
     /\ close_calls <= 1
     /\ (\/ fault # "none"
         \/ "device" \in broken
         \/ \A k \in DOMAIN db.device : ~Matches(db.device[k])
         \/ \E k \in DOMAIN db.device :
              /\ Matches(db.device[k])
              /\ \A j \in 1..(k - 1) : ~Matches(db.device[j])
              /\ db.device[k].alias \in {NULL, Col(<<>>)})
        => device_name = Fallback

\* C8, as far as the code goes: the fallback on every failure path.
C8_FallbackOnEveryFailure ==
  (pc = "constructed") =>
     /\ close_calls <= 1
     /\ (\/ fault # "none"
         \/ "device" \in broken
         \/ \A k \in DOMAIN db.device : ~Matches(db.device[k])
         \/ \E k \in DOMAIN db.device :
              /\ Matches(db.device[k])
              /\ \A j \in 1..(k - 1) : ~Matches(db.device[j])
              /\ db.device[k].alias \in {NULL, Col(<<>>)})
        => device_name = Fallback

InLoop == pc \in {"announce", "extract", "publish", "sleep"}

\* C2: once the transport is connected, nothing that fails in a cycle ends
\* the loop: from every state of the loop the wait is reached again and
\* another cycle starts; run ends with an error only when the transport
\* connection fails at startup, before any discovery or cycle.
C2_LoopNeverEnds ==
  /\ [](pc = "failed" => (~transport /\ discovery = <<>> /\ cycle = 0))
  /\ [](transport => pc # "failed")
  /\ InLoop ~> (pc = "sleep")
  /\ InLoop ~> (pc = "extract")

\* A third cycle ends after a cycle that got no store, with a failing query
\* and a failed publish in it.
C2_Witness ==
  /\ pc = "sleep"
  /\ cycle = 3
  /\ prev_empty
  /\ "latest_heart_rate" \in broken
  /\ last_failed # ""

\* C3: one discovery pass, never a second; no state message before the pass
\* is complete; the first cycle follows the pass without a wait, and cycle k
\* comes after exactly k - 1 waits of the full interval, so no sooner than
\* (k - 1) intervals after the first; from the wait the only way on is the
\* next cycle.
C3_Schedule ==
  /\ [](/\ passes <= 1
        /\ (pc \in {"extract", "publish", "sleep"} \/ state_msgs # <<>>)
              => Len(discovery) = NSensors
        /\ cycle > 0 => sleeps = cycle - 1
        /\ cycle_start >= (cycle - 1) * publish_interval
        /\ now >= cycle_start)
  /\ [][/\ pc = "announce" => pc' \in {"announce", "extract"}
        /\ pc = "extract" => pc' \in {"extract", "publish"}
        /\ pc = "publish" => pc' \in {"publish", "sleep"}
        /\ pc = "sleep" => pc' \in {"sleep", "extract"}
        /\ pc' = "announce" => pc \in {"connect", "announce"}
        /\ (pc = "sleep" /\ pc' = "extract" /\ cycle < MaxCycles)
              => (now' = now + publish_interval /\ cycle_start' = now')]_vars

\* Three cycles with interval 1, the third complete exactly 2 time units
\* after the first began.
C3_Witness ==
  /\ pc = "sleep"
  /\ cycle = 3
  /\ publish_interval = 1
  /\ now = 2

\* The attempts publish_sensor_data owes for the first n descriptors: one
\* for each whose entry is there and is not None, in registry order, with
\* qos 1 and not retained.
RECURSIVE Owed(_)
Owed(n) ==
  IF n = 0 THEN <<>>
  ELSE Owed(n - 1) \o
       (IF Uid(n) \in DOMAIN sensor_data /\ sensor_data[Uid(n)] # None
          THEN <<[topic |-> sensors[device_name][n].state_topic, qos |-> 1,
                  retain |-> FALSE]>>
          ELSE <<>>)

\* C4: in publish_sensor_data, each sensor handled so far has exactly one
\* attempt on its state topic if its entry is present (0 and False included)
\* and none if it is absent or missing; no other sensor has one; every
\* attempt has qos 1 and is not retained; a failed attempt changes none of
\* this for the sensors after it.
C4_OneAttemptPerPresentSensor ==
  [j \in DOMAIN state_msgs |->
     [topic |-> state_msgs[j].topic, qos |-> state_msgs[j].qos,
      retain |-> state_msgs[j].retain]] = Owed(i - 1)

\* A pass is complete in which the battery publish (value 0) failed, later
\* sensors were attempted, False was published and the weight was skipped.
C4_Witness ==
  /\ pc = "sleep"
  /\ Get(sensor_data, "battery_level") = PyInt(0)
  /\ Get(sensor_data, "is_awake") = PyBool(FALSE)
  /\ Get(sensor_data, "weight") = None
  /\ last_failed = "battery_level"
  /\ \E j \in DOMAIN state_msgs :
       state_msgs[j].topic = sensors[device_name][4].state_topic
         /\ state_msgs[j].payload = "0"
  /\ \E j \in DOMAIN state_msgs :
       state_msgs[j].topic = sensors[device_name][11].state_topic
         /\ state_msgs[j].payload = "False"

\* The descriptors the discovery pass has handled.
Announced ==
  CASE pc \in {"connect", "failed", "init", "constructed"} -> 0
    [] pc = "announce" -> i - 1
    [] OTHER -> NSensors

\* C5: the discovery pass attempts exactly one retained publish with qos 1
\* per descriptor, to homeassistant/sensor/{slug}_{unique_id}/config, in
\* registry order, whatever attempts fail; it never ends run with an error.
C5_OneDiscoveryPerDescriptor ==
  /\ Len(discovery) = Announced
  /\ \A k \in DOMAIN discovery :
       /\ discovery[k].topic =
            "homeassistant/sensor/" \o Join(device_name) \o "_" \o Uid(k) \o "/config"
       /\ discovery[k].qos = 1
       /\ discovery[k].retain = TRUE
  /\ pc = "failed" => discovery = <<>>

\* The pass is complete, and its first publish was the one that failed.
C5_Witness ==
  /\ pc = "extract"
  /\ cycle = 1
  /\ Len(discovery) = NSensors
  /\ last_failed = "daily_steps"

\* C6: a cycle whose store is unreachable at the file or connection level
\* gets the empty result and publishes no state message, and the loop goes
\* on; a cycle whose store is reachable gets an entry for every sensor and
\* publishes the present ones, whatever the cycle before it got.
C6_EmptyThenSelfHeals ==
  /\ (Returned /\ fault # "none") => (sensor_data = Empty /\ state_msgs = <<>>)
  /\ (Returned /\ fault = "none") =>
        /\ DOMAIN sensor_data = Ids
        /\ \A k \in 1..NSensors : sensor_data[Uid(k)] = Expected(k)
        /\ \A k \in 1..NSensors :
             (k < i /\ Expected(k) # None) => Cardinality(Attempts(k)) = 1
  /\ (pc = "sleep" /\ fault # "none") => ENABLED Sleep
  /\ pc = "failed" => cycle = 0

\* A cycle over a reachable store is complete, with messages published,
\* right after a cycle that got the empty result.
C6_Witness ==
  /\ pc = "sleep"
  /\ prev_empty
  /\ fault = "none"
  /\ Len(state_msgs) >= 10

StepIds == {"daily_steps", "weekly_steps", "monthly_steps"}

\* The table the k-th query reads.
TableOf(k) ==
  CASE k \in {1, 2, 3, 6} -> db.activity
    [] k = 4 -> db.battery
    [] k = 5 -> db.weight
    [] k \in {7, 8, 9, 10} -> db.summary
    [] k \in {11, 12} -> db.sleep

\* The activity samples the k-th query (a step total, k = 1, 2, 3) sums.
Summed(k) ==
  CASE k = 1 -> {r \in db.activity : /\ r.ts >= DateAt(1) * SecondsPerDay
                                     /\ r.ts < (DateAt(1) + 1) * SecondsPerDay}
    [] k = 2 -> {r \in db.activity : r.ts >= (DateAt(2) - (DateAt(2) % 7)) * SecondsPerDay}
    [] k = 3 -> {r \in db.activity : r.ts >= MonthStart(DateAt(3)) * SecondsPerDay}

\* C9: a query that finds no row leaves its entry absent, except the three
\* step totals, which are 0 when the sum is null; over a reachable store
\* with empty tables the three step entries are 0 and the nine others
\* absent.
C9_NoRowIsAbsentExceptSteps ==
  (Returned /\ fault = "none") =>
     \A k \in 1..NSensors :
        /\ (Uid(k) \notin broken /\ Uid(k) \notin StepIds /\ TableOf(k) = {})
              => sensor_data[Uid(k)] = None
        /\ (Uid(k) \notin broken /\ Uid(k) \in StepIds
              /\ \A r \in Summed(k) : r.steps = NULL)
              => sensor_data[Uid(k)] = PyInt(0)

\* A cycle over empty tables is complete: three entries are 0, nine absent,
\* and three messages "0" were attempted.
C9_Witness ==
  /\ pc = "sleep"
  /\ fault = "none"
  /\ broken = {}
  /\ db = NoTables
  /\ {u \in Ids : sensor_data[u] = PyInt(0)} = StepIds
  /\ {u \in Ids : sensor_data[u] = None} = Ids \ StepIds
  /\ Len(state_msgs) = 3
  /\ \A j \in DOMAIN state_msgs : state_msgs[j].payload = "0"

\* The store of the end-to-end case: one activity sample at today's midnight
\* with 500 steps, nothing else, every query working, the whole cycle run on
\* that day.
OneSampleStore ==
  /\ \E hr \in {NULL, Col(70)} : db = [NoTables EXCEPT !.activity = {Midnight(today, hr)}]
  /\ broken = {}
  /\ fault = "none"
  /\ rolled = 0

\* The payloads attempted on the k-th sensor's state topic.
Payloads(k) == {state_msgs[j].payload : j \in Attempts(k)}

\* C10 as stated: the cycle publishes 500 to the daily-steps topic, nothing
\* to the weekly and monthly topics, and nothing to the battery, weight and
\* heart-rate topics (latest, resting, max, average).
C10_AsStated ==
  (pc = "sleep" /\ OneSampleStore) =>
     /\ Payloads(1) = {"500"}
     /\ \A k \in {2, 3, 4, 5, 6, 7, 8, 9} : Payloads(k) = {}

\* C10 amended: the cycle publishes 500 to the daily, the weekly and the
\* monthly step topics, the sample's heart rate to the latest-heart-rate
\* topic unless it is null, and nothing to any other topic.
C10_Amended ==
  (pc = "sleep" /\ OneSampleStore) =>
     /\ \A k \in {1, 2, 3} : Payloads(k) = {"500"}
     /\ Payloads(6) = IF db.activity = {Midnight(today, NULL)} THEN {} ELSE {"70"}
     /\ \A k \in {4, 5, 7, 8, 9, 10, 11, 12} : Payloads(k) = {}
     /\ Len(state_msgs) = IF db.activity = {Midnight(today, NULL)} THEN 3 ELSE 4

\* The cycle is complete on a Monday that is the first of a month, over the
\* one-sample store with a null heart rate.
C10_Witness ==
  /\ pc = "sleep"
  /\ OneSampleStore
  /\ today = 7
  /\ db.activity = {Midnight(today, NULL)}
  /\ Len(state_msgs) = 3

====
